---- MODULE Spec2Model ----
(***************************************************************************)
(* VerifyAI dashboard (src/verify_ai/dashboard/static/js/dashboard.js).    *)
(*                                                                         *)
(* The page polls GET /api/dashboard/summary on load and on a recurring    *)
(* timer and paints the project label, four stat cards, two charts, the    *)
(* run table and a last-updated stamp.                                     *)
(*                                                                         *)
(* Conventions of the model                                                *)
(*  - float64 quantities (percents, seconds) are integers counting         *)
(*    1/Scale units, so 60 seconds is 60 * Scale;                          *)
(*  - a JavaScript value that may be undefined is a sequence: << >> is     *)
(*    undefined and <<v>> is the value v; a missing property of a JSON     *)
(*    object is a field missing from the record's DOMAIN;                  *)
(*  - a renderer returns [pg, threw]: the page it leaves behind and        *)
(*    whether it ended by throwing;                                        *)
(*  - HTML written with innerHTML is the structure the template builds:    *)
(*    a record per card, a record per table row;                           *)
(*  - a commit hash is a sequence of one-character strings.                *)
(***************************************************************************)
EXTENDS Integers, Sequences, FiniteSets, TLC

VARIABLES
    anchors,        \* ids of the optional elements the document holds
    dom,            \* content of the regions the script writes
    coverageChart,  \* global handle: 0 is null, else an index of charts
    testsChart,     \* global handle: 0 is null, else an index of charts
    charts,         \* every Chart instance constructed so far
    loaded,         \* DOMContentLoaded has fired and init has been called
    timerArmed,     \* setInterval has been called
    polls,          \* polls[p]: where call p of loadDashboard stands
    log,            \* completed polls, in the order they completed
    clock,          \* interval ticks elapsed (the wall clock of the stamp)
    arg,            \* direct call of one function: its argument
    result          \* direct call of one function: its result

vars == <<anchors, dom, coverageChart, testsChart, charts, loaded,
          timerArmed, polls, log, clock, arg, result>>

\* ------------------------------------------------------------------ bounds

\* Calls of loadDashboard (the one of init included) in one behaviour.
MaxPolls == 3
\* Length of the run lists handed to renderRuns when it is called directly.
MaxRuns == 2
\* Durations handed to formatDuration directly range over 0 .. MaxSeconds.
MaxSeconds == 7300
\* Fractional inputs are multiples of 1/Scale.
Scale == 4

\* --------------------------------------------------------------- utilities

Has(obj, f) == f \in DOMAIN obj
\* obj[f] as a JavaScript property read: undefined when the property is missing
Get(obj, f) == IF Has(obj, f) THEN <<obj[f]>> ELSE << >>
Min(a, b) == IF a < b THEN a ELSE b

Ret(pg) == [pg |-> pg, threw |-> FALSE]
Throw(pg) == [pg |-> pg, threw |-> TRUE]

\* Number.prototype.toFixed for x >= 0 and 0 or 1 digits: the nearest
\* multiple of 10^-digits, the larger one on a tie.
toFixed(x, digits) ==
    IF digits = 0
    THEN ToString((2 * x + Scale) \div (2 * Scale))
    ELSE LET n == (20 * x + Scale) \div (2 * Scale)
         IN ToString(n \div 10) \o "." \o ToString(n % 10)

MonthNames == <<"Jan", "Feb", "Mar", "Apr", "May", "Jun",
                "Jul", "Aug", "Sep", "Oct", "Nov", "Dec">>

TwoDigit(n) == IF n < 10 THEN "0" \o ToString(n) ELSE ToString(n)

\* A timestamp is [mon, day, hh, mm], read in the page's time zone.
formatDate(t) == MonthNames[t.mon] \o " " \o ToString(t.day)

formatDateTime(t) ==
    LET h12 == IF t.hh % 12 = 0 THEN 12 ELSE t.hh % 12
    IN MonthNames[t.mon] \o " " \o ToString(t.day) \o ", " \o TwoDigit(h12)
       \o ":" \o TwoDigit(t.mm) \o (IF t.hh < 12 THEN " AM" ELSE " PM")

\* Fault: the brackets of formatDuration closed with <= instead of <.
formatDuration_InclusiveBounds(seconds) ==
    IF seconds <= 60 * Scale
    THEN toFixed(seconds, 1) \o "s"
    ELSE IF seconds <= 3600 * Scale
    THEN LET mins == seconds \div (60 * Scale)
             secs == (seconds % (60 * Scale)) \div Scale
         IN ToString(mins) \o "m " \o ToString(secs) \o "s"
    ELSE LET hours == seconds \div (3600 * Scale)
             mins == (seconds % (3600 * Scale)) \div (60 * Scale)
         IN ToString(hours) \o "h " \o ToString(mins) \o "m"

formatDuration(seconds) ==
    IF seconds < 60 * Scale
    THEN toFixed(seconds, 1) \o "s"
    ELSE IF seconds < 3600 * Scale
    THEN LET mins == seconds \div (60 * Scale)
             secs == (seconds % (60 * Scale)) \div Scale
         IN ToString(mins) \o "m " \o ToString(secs) \o "s"
    ELSE LET hours == seconds \div (3600 * Scale)
             mins == (seconds % (3600 * Scale)) \div (60 * Scale)
         IN ToString(hours) \o "h " \o ToString(mins) \o "m"

getProgressClass(percent) ==
    IF percent >= 80 * Scale THEN "high"
    ELSE IF percent >= 50 * Scale THEN "medium"
    ELSE "low"

\* --------------------------------------------------------------- renderers

\* The page a renderer works on.
Page == [dom |-> dom, coverageChart |-> coverageChart,
         testsChart |-> testsChart, charts |-> charts]

\* Ids of the elements whose lookup the script guards (if (el) ...); the
\* stats container and the table body are used unguarded and are part of
\* the document.
OptionalIds == {"project-path", "coverageChart", "testsChart",
                "runs-count", "last-updated"}

ErrorMessage == "Failed to load dashboard data. Is the API server running?"

updateProjectInfo(pg, project) ==
    IF "project-path" \in anchors
    THEN Ret([pg EXCEPT !.dom.project = project[1]])
    ELSE Ret(pg)

\* The function-valued members the object literal trendIcons inherits from
\* Object.prototype, other than constructor.
InheritedFunctions ==
    {"toString", "toLocaleString", "valueOf", "hasOwnProperty",
     "isPrototypeOf", "propertyIsEnumerable", "__defineGetter__",
     "__defineSetter__", "__lookupGetter__", "__lookupSetter__"}

\* trendIcons[trend] || right arrow.  The lookup walks the prototype chain
\* of the literal: a trend that names a member of Object.prototype finds
\* that member, which is truthy and is written as its string conversion;
\* any other name but up, down and stable finds nothing and gets the
\* default glyph.
TrendIcon(trend) ==
    IF trend = "up" THEN "up-arrow"
    ELSE IF trend = "down" THEN "down-arrow"
    ELSE IF trend = "stable" THEN "right-arrow"
    ELSE IF trend = "constructor" THEN "function Object() { [native code] }"
    ELSE IF trend \in InheritedFunctions
    THEN "function " \o trend \o "() { [native code] }"
    ELSE IF trend = "__proto__" THEN "[object Object]"
    ELSE "right-arrow"

\* The four cards the template of renderStats builds.
StatCards(stats) ==
    LET coverageColor ==
            IF stats.current_coverage >= 80 * Scale THEN "success-color"
            ELSE IF stats.current_coverage >= 50 * Scale THEN "warning-color"
            ELSE "danger-color"
    IN << [h3 |-> "Coverage",
           value |-> toFixed(stats.current_coverage, 1) \o "%",
           color |-> coverageColor,
           trendClass |-> stats.coverage_trend,
           trend |-> <<TrendIcon(stats.coverage_trend), stats.coverage_trend>>],
          [h3 |-> "Total Runs",
           value |-> ToString(stats.total_test_runs),
           trend |-> ToString(stats.successful_runs) \o " passed, "
                     \o ToString(stats.failed_runs) \o " failed"],
          [h3 |-> "Success Rate",
           value |-> toFixed(stats.success_rate, 0) \o "%",
           fill |-> getProgressClass(stats.success_rate),
           width |-> stats.success_rate],
          [h3 |-> "Avg Duration",
           value |-> formatDuration(stats.avg_duration_seconds),
           trend |-> "Pass rate: " \o toFixed(stats.avg_pass_rate, 0) \o "%"] >>

\* stats undefined: reading stats.current_coverage throws before the
\* container is written.
renderStats(pg, stats) ==
    IF stats = << >>
    THEN Throw(pg)
    ELSE Ret([pg EXCEPT !.dom.stats =
                 [kind |-> "cards", cards |-> StatCards(stats[1])]])

\* Chart.prototype.destroy on the instance a handle refers to.
Destroy(cs, h) ==
    IF h = 0 THEN cs ELSE [cs EXCEPT ![h].destroyed = @ + 1]

\* trends undefined: trends.map throws after the old instance was destroyed.
renderCoverageChart(pg, trends) ==
    IF "coverageChart" \notin anchors
    THEN Ret(pg)
    ELSE LET cs == Destroy(pg.charts, pg.coverageChart)
         IN IF trends = << >>
            THEN Throw([pg EXCEPT !.charts = cs])
            ELSE LET t == trends[1]
                     chart == [type |-> "line",
                               labels |-> [i \in DOMAIN t |-> formatDate(t[i].timestamp)],
                               data |-> << [i \in DOMAIN t |-> t[i].coverage_percent] >>,
                               destroyed |-> 0]
                 IN Ret([pg EXCEPT !.charts = Append(cs, chart),
                                   !.coverageChart = Len(cs) + 1])

renderTestsChart(pg, runs) ==
    IF "testsChart" \notin anchors
    THEN Ret(pg)
    ELSE LET cs == Destroy(pg.charts, pg.testsChart)
         IN IF runs = << >>
            THEN Throw([pg EXCEPT !.charts = cs])
            ELSE LET r == runs[1]
                     chart == [type |-> "bar",
                               labels |-> [i \in DOMAIN r |-> formatDate(r[i].timestamp)],
                               data |-> << [i \in DOMAIN r |-> r[i].passed_tests],
                                           [i \in DOMAIN r |-> r[i].failed_tests] >>,
                               destroyed |-> 0]
                 IN Ret([pg EXCEPT !.charts = Append(cs, chart),
                                   !.testsChart = Len(cs) + 1])

Dash == "-"

\* run.coverage_percent ? run.coverage_percent.toFixed(1) + '%' : '-'
\* (undefined and 0 are falsy)
CoverageCell(run) ==
    IF Has(run, "coverage_percent") /\ run.coverage_percent # 0
    THEN toFixed(run.coverage_percent, 1) \o "%"
    ELSE Dash

\* run.commit_sha ? <span class="commit-sha">slice(0, 7)</span> : '-'
\* (undefined and the empty string are falsy)
CommitCell(run) ==
    IF Has(run, "commit_sha") /\ run.commit_sha # << >>
    THEN [span |-> "commit-sha",
          text |-> SubSeq(run.commit_sha, 1, Min(7, Len(run.commit_sha)))]
    ELSE [span |-> "", text |-> <<Dash>>]

\* One <tr> of the run table.
RunRow(run) ==
    [timestamp |-> formatDateTime(run.timestamp),
     status |-> run.status,
     trigger |-> run.trigger,
     tests |-> ToString(run.passed_tests) \o "/" \o ToString(run.total_tests),
     fill |-> getProgressClass(run.pass_rate),
     width |-> run.pass_rate,
     passRate |-> toFixed(run.pass_rate, 0) \o "%",
     coverage |-> CoverageCell(run),
     duration |-> formatDuration(run.duration_seconds),
     commit |-> CommitCell(run)]

EmptyStateRow ==
    [colspan |-> 8, class |-> "empty-state",
     text |-> "No test runs yet. Run vai verify to start."]

RunRows(rs) == [i \in DOMAIN rs |-> RunRow(rs[i])]

\* Fault: renderRuns adding its rows to the body (innerHTML +=) instead of
\* replacing it.
renderRuns_Appends(pg, runs) ==
    IF runs = << >>
    THEN Throw(pg)
    ELSE LET rs == runs[1]
             pg1 == IF "runs-count" \in anchors
                    THEN [pg EXCEPT !.dom.count = ToString(Len(rs)) \o " runs"]
                    ELSE pg
         IN IF Len(rs) = 0
            THEN Ret([pg1 EXCEPT !.dom.tbody = @ \o <<EmptyStateRow>>])
            ELSE IF \E i \in DOMAIN rs : ~Has(rs[i], "pass_rate")
            THEN Throw(pg1)
            ELSE Ret([pg1 EXCEPT !.dom.tbody = @ \o RunRows(rs)])

\* Fault: renderRuns without the return that ends the empty case, so the
\* rows of the empty list overwrite the placeholder row.
renderRuns_NoReturn(pg, runs) ==
    IF runs = << >>
    THEN Throw(pg)
    ELSE LET rs == runs[1]
             pg1 == IF "runs-count" \in anchors
                    THEN [pg EXCEPT !.dom.count = ToString(Len(rs)) \o " runs"]
                    ELSE pg
         IN IF \E i \in DOMAIN rs : ~Has(rs[i], "pass_rate")
            THEN Throw(pg1)
            ELSE Ret([pg1 EXCEPT !.dom.tbody = RunRows(rs)])

\* runs undefined: runs.length throws first.  A record without pass_rate:
\* run.pass_rate.toFixed throws inside map, after the count was written and
\* before the table body is assigned.
renderRuns(pg, runs) ==
    IF runs = << >>
    THEN Throw(pg)
    ELSE LET rs == runs[1]
             pg1 == IF "runs-count" \in anchors
                    THEN [pg EXCEPT !.dom.count = ToString(Len(rs)) \o " runs"]
                    ELSE pg
         IN IF Len(rs) = 0
            THEN Ret([pg1 EXCEPT !.dom.tbody = <<EmptyStateRow>>])
            ELSE IF \E i \in DOMAIN rs : ~Has(rs[i], "pass_rate")
            THEN Throw(pg1)
            ELSE Ret([pg1 EXCEPT !.dom.tbody = RunRows(rs)])

showError(pg, message) ==
    Ret([pg EXCEPT !.dom.stats = [kind |-> "error", message |-> message]])

\* new Date().toLocaleTimeString(): the time of the call.
updateLastUpdated(pg) ==
    IF "last-updated" \in anchors
    THEN Ret([pg EXCEPT !.dom.stamp = "Last updated: " \o ToString(clock)])
    ELSE Ret(pg)

\* One statement of the try block after the statements that gave r: skipped
\* if one of them threw, else the renderer runs on the page r left and
\* gives q.  stage counts the renderers that returned.
Staged(r, q) ==
    IF r.threw
    THEN r
    ELSE [pg |-> q.pg, threw |-> q.threw,
          stage |-> IF q.threw THEN r.stage ELSE r.stage + 1]

\* Fault: the run table rendered before the two charts.
UpdateAllSections_TableFirst(pg, data) ==
    LET r0 == [pg |-> pg, threw |-> FALSE, stage |-> 0]
        r1 == Staged(r0, updateProjectInfo(r0.pg, Get(data, "project")))
        r2 == Staged(r1, renderStats(r1.pg, Get(data, "stats")))
        r3 == Staged(r2, renderRuns(r2.pg, Get(data, "recent_runs")))
        r4 == Staged(r3, renderCoverageChart(r3.pg, Get(data, "recent_coverage")))
        r5 == Staged(r4, renderTestsChart(r4.pg, Get(data, "recent_runs")))
    IN Staged(r5, updateLastUpdated(r5.pg))

\* The body of the try block once response.json() has resolved to data.
UpdateAllSections(pg, data) ==
    LET r0 == [pg |-> pg, threw |-> FALSE, stage |-> 0]
        r1 == Staged(r0, updateProjectInfo(r0.pg, Get(data, "project")))
        r2 == Staged(r1, renderStats(r1.pg, Get(data, "stats")))
        r3 == Staged(r2, renderCoverageChart(r2.pg, Get(data, "recent_coverage")))
        r4 == Staged(r3, renderTestsChart(r3.pg, Get(data, "recent_runs")))
        r5 == Staged(r4, renderRuns(r4.pg, Get(data, "recent_runs")))
    IN Staged(r5, updateLastUpdated(r5.pg))

\* The catch block.
Catch(pg) == showError(pg, ErrorMessage).pg

\* try { update all sections } catch { showError }.
RenderCycle(pg, data) ==
    LET r == UpdateAllSections(pg, data)
    IN IF r.threw
       THEN [pg |-> Catch(r.pg), outcome |-> "renderfail", stage |-> r.stage]
       ELSE [pg |-> r.pg, outcome |-> "ok", stage |-> r.stage]

\* ---------------------------------------------------------------- payloads

Chars(n) == SubSeq(<<"0", "1", "2", "3", "4", "5", "6", "7", "8", "9", "a", "b">>, 1, n)

T1 == [mon |-> 10, day |-> 29, hh |-> 9, mm |-> 5]
T2 == [mon |-> 10, day |-> 30, hh |-> 14, mm |-> 30]

StatsA ==
    [current_coverage |-> 82 * Scale + 1, coverage_trend |-> "up",
     total_test_runs |-> 10, successful_runs |-> 9, failed_runs |-> 1,
     success_rate |-> 90 * Scale, avg_duration_seconds |-> 125 * Scale + 2,
     avg_pass_rate |-> 88 * Scale]

StatsB ==
    [current_coverage |-> 45 * Scale, coverage_trend |-> "flat",
     total_test_runs |-> 0, successful_runs |-> 0, failed_runs |-> 0,
     success_rate |-> 50 * Scale, avg_duration_seconds |-> 0,
     avg_pass_rate |-> 0]

\* coverage_trend outside the enumeration, naming an inherited member
StatsC == [StatsB EXCEPT !.coverage_trend = "constructor"]

RunFull ==
    [timestamp |-> T2, status |-> "passed", trigger |-> "manual",
     passed_tests |-> 9, failed_tests |-> 1, total_tests |-> 10,
     pass_rate |-> 90 * Scale, coverage_percent |-> 82 * Scale + 1,
     duration_seconds |-> 60 * Scale, commit_sha |-> Chars(12)]

\* coverage_percent and commit_sha absent
RunBare ==
    [timestamp |-> T1, status |-> "failed", trigger |-> "push",
     passed_tests |-> 0, failed_tests |-> 4, total_tests |-> 4,
     pass_rate |-> 0, duration_seconds |-> 59 * Scale + 3]

\* not a RunRecord: pass_rate is missing
RunNoPassRate ==
    [timestamp |-> T1, status |-> "error", trigger |-> "push",
     passed_tests |-> 0, failed_tests |-> 0, total_tests |-> 0,
     duration_seconds |-> 3600 * Scale]

SummaryA ==
    [project |-> "/repo/a", stats |-> StatsA,
     recent_coverage |-> << [timestamp |-> T1, coverage_percent |-> 80 * Scale],
                            [timestamp |-> T2, coverage_percent |-> 82 * Scale + 1] >>,
     recent_runs |-> <<RunFull, RunBare>>]

SummaryB ==
    [project |-> "/repo/b", stats |-> StatsB,
     recent_coverage |-> << >>, recent_runs |-> << >>]

\* The bodies response.json() resolves to: two DashboardSummary objects,
\* and four parseable bodies that are no DashboardSummary (a property is
\* missing), one for each renderer that reads its argument.
Payloads ==
    << SummaryA,
       SummaryB,
       [project |-> "/repo/c", recent_coverage |-> << >>, recent_runs |-> << >>],
       [project |-> "/repo/d", stats |-> StatsC, recent_runs |-> << >>],
       [project |-> "/repo/e", stats |-> StatsA, recent_coverage |-> << >>],
       [project |-> "/repo/f", stats |-> StatsB, recent_coverage |-> << >>,
        recent_runs |-> <<RunNoPassRate>>] >>

\* ------------------------------------------------------------ state machine

NoCall == [fn |-> "none"]

InitialDom ==
    [project |-> "", stats |-> [kind |-> "initial"], tbody |-> << >>,
     count |-> "", stamp |-> ""]

\* The documents the script is loaded into: every optional element present,
\* none present, and exactly one missing.
Documents ==
    {OptionalIds, {}} \cup {OptionalIds \ {id} : id \in OptionalIds}

Init ==
    /\ anchors \in Documents
    /\ dom = InitialDom
    /\ coverageChart = 0
    /\ testsChart = 0
    /\ charts = << >>
    /\ loaded = FALSE
    /\ timerArmed = FALSE
    /\ polls = << >>
    /\ log = << >>
    /\ clock = 0
    /\ arg = NoCall
    /\ result = "pending"

SetPage(pg) ==
    /\ dom' = pg.dom
    /\ coverageChart' = pg.coverageChart
    /\ testsChart' = pg.testsChart
    /\ charts' = pg.charts

\* A call of loadDashboard that has just started: no response yet.
NewPoll == [pc |-> "fetch", status |-> 0]

\* response.ok
Ok(status) == status >= 200 /\ status <= 299

\* Fault: loadDashboard rethrowing from its catch, so that init never
\* reaches setInterval when its own call fails.
initResume_OnlyOnSuccess(p, outcome, armed) ==
    armed \/ (p = 1 /\ outcome = "ok")

\* init resumes after `await loadDashboard()`.  loadDashboard catches
\* whatever its try block throws, so its promise is fulfilled whatever the
\* outcome, and the continuation of init (call 1) arms the timer.
initResume(p, outcome, armed) == armed \/ p = 1

\* Call p of loadDashboard ends (returns after its try or its catch).
\* The log entry keeps the status of the response (0: none arrived) and the
\* index of the parsed body (0: none was parsed).
Complete(p, status, outcome, stage, data) ==
    /\ polls' = [polls EXCEPT ![p] = [pc |-> "done", status |-> status]]
    /\ log' = Append(log, [poll |-> p, status |-> status, outcome |-> outcome,
                           stage |-> stage, data |-> data])
    /\ timerArmed' = initResume(p, outcome, timerArmed)

\* DOMContentLoaded: init calls loadDashboard, which starts its fetch.
Load ==
    /\ ~loaded
    /\ arg = NoCall
    /\ loaded' = TRUE
    /\ polls' = <<NewPoll>>
    /\ UNCHANGED <<anchors, dom, coverageChart, testsChart, charts,
                   timerArmed, log, clock, arg, result>>

\* Fault: an in-flight guard: the timer's call returns at once while an
\* earlier call has not ended.
Tick_WhenIdle ==
    /\ timerArmed
    /\ Len(polls) < MaxPolls
    /\ \A p \in DOMAIN polls : polls[p].pc = "done"
    /\ polls' = Append(polls, NewPoll)
    /\ clock' = clock + 1
    /\ UNCHANGED <<anchors, dom, coverageChart, testsChart, charts, loaded,
                   timerArmed, log, arg, result>>

\* The interval timer fires: loadDashboard starts another fetch, whatever
\* the earlier calls are doing.
Tick ==
    /\ timerArmed
    /\ Len(polls) < MaxPolls
    /\ polls' = Append(polls, NewPoll)
    /\ clock' = clock + 1
    /\ UNCHANGED <<anchors, dom, coverageChart, testsChart, charts, loaded,
                   timerArmed, log, arg, result>>

\* The fetch promise of call p rejects (network error): catch.
FetchReject(p) ==
    /\ polls[p].pc = "fetch"
    /\ SetPage(Catch(Page))
    /\ Complete(p, 0, "fetchfail", 0, 0)
    /\ UNCHANGED <<anchors, loaded, clock, arg, result>>

\* Fault: the response.ok check left out: the body of an error response is
\* parsed and rendered like any other.
FetchResolve_NoOkCheck(p, status) ==
    /\ polls[p].pc = "fetch"
    /\ polls' = [polls EXCEPT ![p] = [pc |-> "json", status |-> status]]
    /\ UNCHANGED <<dom, coverageChart, testsChart, charts, timerArmed, log>>
    /\ UNCHANGED <<anchors, loaded, clock, arg, result>>

\* The fetch promise of call p resolves to a response with this status;
\* a response that is not ok throws.
FetchResolve(p, status) ==
    /\ polls[p].pc = "fetch"
    /\ IF Ok(status)
       THEN /\ polls' = [polls EXCEPT ![p] = [pc |-> "json", status |-> status]]
            /\ UNCHANGED <<dom, coverageChart, testsChart, charts, timerArmed, log>>
       ELSE /\ SetPage(Catch(Page))
            /\ Complete(p, status, "fetchfail", 0, 0)
    /\ UNCHANGED <<anchors, loaded, clock, arg, result>>

\* response.json() of call p rejects (the body is no JSON): catch.
JsonReject(p) ==
    /\ polls[p].pc = "json"
    /\ SetPage(Catch(Page))
    /\ Complete(p, polls[p].status, "fetchfail", 0, 0)
    /\ UNCHANGED <<anchors, loaded, clock, arg, result>>

\* response.json() of call p resolves to Payloads[d]: the sections are
\* updated in one synchronous run, ending in the catch if one throws.
JsonResolve(p, d) ==
    /\ polls[p].pc = "json"
    /\ LET r == RenderCycle(Page, Payloads[d])
       IN /\ SetPage(r.pg)
          /\ Complete(p, polls[p].status, r.outcome, r.stage, d)
    /\ UNCHANGED <<anchors, loaded, clock, arg, result>>

Statuses == {200, 500}

Next ==
    \/ Load
    \/ Tick
    \/ \E p \in DOMAIN polls : FetchReject(p)
    \/ \E p \in DOMAIN polls : \E status \in Statuses : FetchResolve(p, status)
    \/ \E p \in DOMAIN polls : JsonReject(p)
    \/ \E p \in DOMAIN polls : \E d \in DOMAIN Payloads : JsonResolve(p, d)

Spec == Init /\ [][Next]_vars

\* ------------------------------------------------- direct calls of functions

\* The run records handed to renderRuns directly: coverage_percent absent,
\* 0, 0.25 and 100; commit_sha absent, empty, shorter than, exactly and
\* longer than 7 characters; and one record that is no RunRecord.
WithCoverage(run, c) ==
    [f \in DOMAIN run \cup {"coverage_percent"} |->
        IF f = "coverage_percent" THEN c ELSE run[f]]

WithCommit(run, sha) ==
    [f \in DOMAIN run \cup {"commit_sha"} |->
        IF f = "commit_sha" THEN sha ELSE run[f]]

CoverageInputs == {0, 1, 100 * Scale}
CommitInputs == {Chars(0), Chars(3), Chars(7), Chars(12)}

RunInputs ==
    LET covs == {RunBare} \cup {WithCoverage(RunBare, c) : c \in CoverageInputs}
    IN covs \cup {WithCommit(r, sha) : r \in covs, sha \in CommitInputs}
            \cup {RunNoPassRate}

RunLists == UNION {[1 .. n -> RunInputs] : n \in 0 .. MaxRuns}

PriorBodies == {<< >>, <<EmptyStateRow>>, RunRows(<<RunFull, RunBare>>)}

Calls ==
    {[fn |-> "formatDuration", seconds |-> s] : s \in 0 .. MaxSeconds * Scale}
    \cup {[fn |-> "renderRuns", runs |-> rs, prior |-> b] :
             rs \in RunLists, b \in PriorBodies}

UnitInit ==
    /\ arg \in Calls
    /\ anchors \in {OptionalIds, OptionalIds \ {"runs-count"}}
    /\ dom = IF arg.fn = "renderRuns"
             THEN [InitialDom EXCEPT !.tbody = arg.prior]
             ELSE InitialDom
    /\ coverageChart = 0
    /\ testsChart = 0
    /\ charts = << >>
    /\ loaded = FALSE
    /\ timerArmed = FALSE
    /\ polls = << >>
    /\ log = << >>
    /\ clock = 0
    /\ result = "pending"

CallFormatDuration ==
    /\ arg.fn = "formatDuration"
    /\ result = "pending"
    /\ result' = formatDuration(arg.seconds)
    /\ UNCHANGED <<anchors, dom, coverageChart, testsChart, charts, loaded,
                   timerArmed, polls, log, clock, arg>>

CallRenderRuns ==
    /\ arg.fn = "renderRuns"
    /\ result = "pending"
    /\ LET r == renderRuns(Page, <<arg.runs>>)
       IN /\ SetPage(r.pg)
          /\ result' = IF r.threw THEN "threw" ELSE "returned"
    /\ UNCHANGED <<anchors, loaded, timerArmed, polls, log, clock, arg>>

UnitNext == CallFormatDuration \/ CallRenderRuns

UnitSpec == UnitInit /\ [][UnitNext]_vars

\* ------------------------------------------------------------------ claims

Last(q) == q[Len(q)]

\* A step in which a call of loadDashboard ends, and the entry it logs.
PollEnds == Len(log') = Len(log) + 1
Ended == log'[Len(log')]

\* The fetch of a logged cycle failed: no response or a response that is
\* not ok, or a body that did not parse.
FetchFailed(e) == ~Ok(e.status) \/ e.data = 0

ErrorShown == [kind |-> "error", message |-> ErrorMessage]
CardsOf(P) == [kind |-> "cards", cards |-> StatCards(P.stats)]

\* C1: a poll cycle whose fetch fails (network error, non-2xx status, JSON
\* parse error) replaces the stat-card region by the fixed error message
\* and leaves the project label, both chart handles and every chart
\* instance, the run table, the runs count and the stamp as they were.
C1_FetchFailureRendersNothing ==
    [][(PollEnds /\ FetchFailed(Ended)) =>
          /\ dom' = [dom EXCEPT !.stats = ErrorShown]
          /\ coverageChart' = coverageChart
          /\ testsChart' = testsChart
          /\ charts' = charts]_vars

\* C1 witness: a failed fetch after a rendered cycle: the error message is
\* shown over a table, a label and charts of the earlier cycle.
C1_Witness ==
    /\ Len(log) >= 2
    /\ FetchFailed(Last(log))
    /\ dom.stats = ErrorShown
    /\ dom.tbody = RunRows(SummaryA.recent_runs)
    /\ dom.project = SummaryA.project
    /\ coverageChart # 0 /\ charts[coverageChart].destroyed = 0

\* C2: a failed poll never stops the loop: once a call has ended, failed or
\* not, the timer is armed; an armed timer issues the next poll (up to the
\* bound of the model); and a cycle that ends without error leaves the
\* four stat cards of its data in the stat-card region, whatever failed
\* before it.
C2_FailureNeverStopsPolling ==
    /\ log # << >> => timerArmed
    /\ (timerArmed /\ Len(polls) < MaxPolls) => ENABLED Tick
    /\ (log # << >> /\ Last(log).outcome = "ok") =>
           /\ dom.stats = CardsOf(Payloads[Last(log).data])
           /\ Len(dom.stats.cards) = 4

\* C2 witness: the first poll failed, a later poll succeeded, and the
\* cards have replaced the error message.
C2_Witness ==
    /\ Len(log) >= 2
    /\ log[1].outcome # "ok"
    /\ Last(log).outcome = "ok"
    /\ dom.stats.kind = "cards"
    /\ timerArmed

\* C3 as stated: after page load a poll can be issued at the next tick
\* whether or not earlier polls, the initial one included, have completed.
C3_Original ==
    (loaded /\ Len(polls) < MaxPolls) => ENABLED Tick

\* C3 amended: the timer is armed exactly when the initial poll has
\* completed; from then on a poll can be issued at every tick whatever the
\* earlier polls are doing, and issuing it leaves the polls in flight as
\* they are.
C3_TimerPollsIndependent ==
    /\ [](timerArmed <=> (polls # << >> /\ polls[1].pc = "done"))
    /\ []((timerArmed /\ Len(polls) < MaxPolls) => ENABLED Tick)
    /\ [][Len(polls') > Len(polls) =>
            /\ SubSeq(polls', 1, Len(polls)) = polls
            /\ Last(polls') = NewPoll]_vars

\* C3 witness: two requests in flight at once.
C3_Witness ==
    \E p, q \in DOMAIN polls :
        p # q /\ polls[p].pc # "done" /\ polls[q].pc # "done"

\* What a cycle with body P leaves in each region when the region's
\* renderer returned, from the page pre to the page post.
ProjectShows(pre, post, P) ==
    post.dom.project =
        IF "project-path" \in anchors THEN P.project ELSE pre.dom.project

CoverageShows(pre, post, P) ==
    IF "coverageChart" \in anchors
    THEN /\ post.coverageChart # 0
         /\ post.charts[post.coverageChart] =
                [type |-> "line",
                 labels |-> [i \in DOMAIN P.recent_coverage |->
                                formatDate(P.recent_coverage[i].timestamp)],
                 data |-> << [i \in DOMAIN P.recent_coverage |->
                                P.recent_coverage[i].coverage_percent] >>,
                 destroyed |-> 0]
    ELSE post.coverageChart = pre.coverageChart

TestsShows(pre, post, P) ==
    IF "testsChart" \in anchors
    THEN /\ post.testsChart # 0
         /\ post.charts[post.testsChart] =
                [type |-> "bar",
                 labels |-> [i \in DOMAIN P.recent_runs |->
                                formatDate(P.recent_runs[i].timestamp)],
                 data |-> << [i \in DOMAIN P.recent_runs |->
                                P.recent_runs[i].passed_tests],
                             [i \in DOMAIN P.recent_runs |->
                                P.recent_runs[i].failed_tests] >>,
                 destroyed |-> 0]
    ELSE post.testsChart = pre.testsChart

TableShows(pre, post, P) ==
    /\ post.dom.tbody = IF P.recent_runs = << >>
                        THEN <<EmptyStateRow>>
                        ELSE RunRows(P.recent_runs)
    /\ post.dom.count = IF "runs-count" \in anchors
                        THEN ToString(Len(P.recent_runs)) \o " runs"
                        ELSE pre.dom.count

StampShows(pre, post) ==
    post.dom.stamp = IF "last-updated" \in anchors
                     THEN "Last updated: " \o ToString(clock)
                     ELSE pre.dom.stamp

\* The instances of one chart type, by index.
ChartsOfType(cs, type) ==
    [i \in {j \in DOMAIN cs : cs[j].type = type} |-> cs[i]]

CoverageKept(pre, post) ==
    /\ post.coverageChart = pre.coverageChart
    /\ ChartsOfType(post.charts, "line") = ChartsOfType(pre.charts, "line")

TestsKept(pre, post) ==
    /\ post.testsChart = pre.testsChart
    /\ ChartsOfType(post.charts, "bar") = ChartsOfType(pre.charts, "bar")

TableKept(pre, post) ==
    post.dom.tbody = pre.dom.tbody /\ post.dom.count = pre.dom.count

StampKept(pre, post) == post.dom.stamp = pre.dom.stamp

\* A cycle with body P in which k renderers returned: every region but the
\* stat cards shows P if its renderer returned, and is as it was if its
\* renderer comes after the one that threw.
FrameButStats(pre, post, P, k) ==
    /\ k >= 1 => ProjectShows(pre, post, P)
    /\ k >= 3 => CoverageShows(pre, post, P)
    /\ k >= 4 => TestsShows(pre, post, P)
    /\ k >= 5 => TableShows(pre, post, P)
    /\ k >= 6 => StampShows(pre, post)
    /\ k < 2 => CoverageKept(pre, post)
    /\ k < 3 => TestsKept(pre, post)
    /\ k < 4 => TableKept(pre, post)
    /\ k < 5 => StampKept(pre, post)

\* A step in which a cycle whose fetch succeeded ends.
DispatchEnds == PollEnds /\ ~FetchFailed(Ended)

\* C4 as stated: the frame a cycle leaves shows the cycle's data in exactly
\* a prefix of project label, stat cards, coverage chart, test chart, run
\* table, stamp: the stat cards show the new stats as soon as renderStats
\* has returned, and the regions after the failing renderer are as before.
C4_Original ==
    [][DispatchEnds =>
          /\ FrameButStats(Page, Page', Payloads[Ended.data], Ended.stage)
          /\ Ended.stage >= 2 => dom'.stats = CardsOf(Payloads[Ended.data])
          /\ Ended.stage < 1 => dom'.stats = dom.stats]_vars

\* C4 amended: the renderers run in the fixed order and none runs after one
\* that threw, so the regions other than the stat cards show the cycle's
\* data in a prefix of the order and are as before after the failing
\* renderer; the stat-card region shows the cycle's stats only if every
\* renderer returned, and the error message otherwise.
C4_PrefixWithErrorCard ==
    [][DispatchEnds =>
          /\ FrameButStats(Page, Page', Payloads[Ended.data], Ended.stage)
          /\ Ended.stage = 6 <=> Ended.outcome = "ok"
          /\ dom'.stats = IF Ended.stage = 6
                          THEN CardsOf(Payloads[Ended.data])
                          ELSE ErrorShown]_vars

\* C4 witness: the test chart's renderer threw after the label and the
\* coverage chart were updated: the table is still the earlier cycle's and
\* the stat cards are the error message.
C4_Witness ==
    /\ Len(log) >= 2
    /\ Last(log).outcome = "renderfail" /\ Last(log).stage = 3
    /\ dom.project = Payloads[Last(log).data].project
    /\ dom.tbody = RunRows(SummaryA.recent_runs)
    /\ dom.stats = ErrorShown
    /\ coverageChart # 0 /\ charts[coverageChart].labels = << >>

\* The lifecycle of one chart: at most one instance is created and not
\* destroyed, the handle refers to it, no instance is destroyed twice, and
\* without the anchor there is no instance at all.
ChartLifecycle(handle, type, anchor) ==
    LET live == {i \in DOMAIN charts :
                    charts[i].type = type /\ charts[i].destroyed = 0}
    IN /\ Cardinality(live) <= 1
       /\ handle # 0 => live = {handle}
       /\ handle = 0 => live = {}
       /\ \A i \in DOMAIN charts : charts[i].destroyed <= 1
       /\ anchor \notin anchors =>
              handle = 0 /\ \A i \in DOMAIN charts : charts[i].type # type

\* C5: for each of the two charts, after any sequence of polls, at most
\* one instance is created and not destroyed, the global handle refers to
\* it, no instance is destroyed twice, and a renderer whose anchor is
\* absent neither destroys nor creates anything.
C5_Claim ==
    /\ ChartLifecycle(coverageChart, "line", "coverageChart")
    /\ ChartLifecycle(testsChart, "bar", "testsChart")

\* The regions C6 speaks of.
View(pg) ==
    [project |-> pg.dom.project, stats |-> pg.dom.stats,
     tbody |-> pg.dom.tbody, count |-> pg.dom.count]

\* C6: a cycle that renders the body the cycle before it rendered leaves
\* the stat cards, the table body, the runs count and the project label
\* exactly as the first of the two left them, whatever the page held
\* before the first.
C6_RenderIdempotent ==
    [][(/\ DispatchEnds
        /\ log # << >>
        /\ ~FetchFailed(Last(log))
        /\ Last(log).data = Ended.data) => View(Page') = View(Page)]_vars

\* C6 witness: the same summary rendered by two cycles in a row, over a
\* page that showed the error message before, with the rows of one render.
C6_Witness ==
    /\ Len(log) >= 3
    /\ log[Len(log) - 2].outcome = "fetchfail"
    /\ log[Len(log) - 1].outcome = "ok" /\ log[Len(log) - 1].data = 1
    /\ Last(log).outcome = "ok" /\ Last(log).data = 1
    /\ dom.tbody = RunRows(SummaryA.recent_runs)
    /\ dom.stats = CardsOf(SummaryA)

\* renderRuns was called directly and has ended.
RunsCalled == arg.fn = "renderRuns" /\ result # "pending"
IsRunRecord(run) == Has(run, "pass_rate")

\* C7: renderRuns(runs) on a list of RunRecords returns, sets the count to
\* the length of the list and replaces the body, whatever it held, by the
\* one placeholder row when the list is empty and by one row per record,
\* the i-th from the i-th, otherwise.
C7_RenderRunsRows ==
    (RunsCalled /\ \A i \in DOMAIN arg.runs : IsRunRecord(arg.runs[i])) =>
        /\ result = "returned"
        /\ "runs-count" \in anchors =>
               dom.count = ToString(Len(arg.runs)) \o " runs"
        /\ arg.runs = << >> => dom.tbody = <<EmptyStateRow>>
        /\ arg.runs # << >> =>
               /\ Len(dom.tbody) = Len(arg.runs)
               /\ \A i \in DOMAIN arg.runs : dom.tbody[i] = RunRow(arg.runs[i])

\* C7 witness: two different records rendered over a body that held rows.
C7_Witness ==
    /\ RunsCalled /\ result = "returned"
    /\ Len(arg.runs) = 2 /\ arg.runs[1] # arg.runs[2]
    /\ arg.prior = RunRows(<<RunFull, RunBare>>)
    /\ dom.tbody = <<RunRow(arg.runs[1]), RunRow(arg.runs[2])>>
    /\ dom.count = "2 runs"

\* C8: in every row the coverage column is the dash iff coverage_percent is
\* absent and the percent value otherwise, including 0; the commit column
\* is the dash iff commit_sha is absent and its first 7 characters
\* otherwise.
C8_Claim ==
    (RunsCalled /\ result = "returned") =>
        \A i \in DOMAIN arg.runs :
            LET run == arg.runs[i]
                row == dom.tbody[i]
            IN /\ row.coverage = Dash <=> ~Has(run, "coverage_percent")
               /\ Has(run, "coverage_percent") =>
                      row.coverage = toFixed(run.coverage_percent, 1) \o "%"
               /\ row.commit.text = <<Dash>> <=> ~Has(run, "commit_sha")
               /\ Has(run, "commit_sha") =>
                      row.commit.text =
                          [j \in 1 .. Min(7, Len(run.commit_sha)) |-> run.commit_sha[j]]

\* C9: formatDuration(s), s >= 0: below 60 seconds with one decimal; from
\* 60 below 3600 "Mm Ss" with M = floor(s / 60) in 1 .. 59 and
\* S = floor(s mod 60) in 0 .. 59; from 3600 "Hh Mm" with
\* H = floor(s / 3600) >= 1 and M = floor((s mod 3600) / 60) in 0 .. 59;
\* 60 is "1m 0s" and 3600 is "1h 0m".
C9_DurationBrackets ==
    (arg.fn = "formatDuration" /\ result # "pending") =>
        LET s == arg.seconds
            whole == s \div Scale
        IN /\ s < 60 * Scale => result = toFixed(s, 1) \o "s"
           /\ (60 * Scale <= s /\ s < 3600 * Scale) =>
                  LET M == whole \div 60
                      S == whole % 60
                  IN /\ result = ToString(M) \o "m " \o ToString(S) \o "s"
                     /\ 1 <= M /\ M <= 59
                     /\ 0 <= S /\ S <= 59
           /\ s >= 3600 * Scale =>
                  LET H == whole \div 3600
                      M == (whole % 3600) \div 60
                  IN /\ result = ToString(H) \o "h " \o ToString(M) \o "m"
                     /\ H >= 1
                     /\ 0 <= M /\ M <= 59
           /\ s = 60 * Scale => result = "1m 0s"
           /\ s = 3600 * Scale => result = "1h 0m"

\* C9 witness: the last instant of the minutes bracket, 59m 59s.
C9_Witness ==
    /\ arg.fn = "formatDuration"
    /\ arg.seconds = 3600 * Scale - 1
    /\ result = "59m 59s"

\* C10: once the response of a poll has been rendered, the response of a
\* poll issued earlier is never rendered afterwards.
C10_Claim ==
    \A i, j \in DOMAIN log :
        (i < j /\ log[i].outcome = "ok" /\ log[j].outcome = "ok") =>
            log[i].poll < log[j].poll

====
